---- MODULE Spec2Model ----
(***************************************************************************)
(* State-machine model of the radial store: the goal/task records kept in  *)
(* memory by a Database, their per-entity files in the .radial directory,  *)
(* the task and goal life cycles and the dependency resolver that runs     *)
(* inside "complete task".                                                  *)
(*                                                                         *)
(* Timestamps are logical: a record is created at the number of records    *)
(* already in the directory plus one, and every later Timestamp::now()     *)
(* stored into a record is one more than the stamp it replaces.            *)
(* Option<T> is a sequence of length at most one.                          *)
(***************************************************************************)
EXTENDS Integers, Sequences, FiniteSets, TLC

VARIABLES disk, mem, issued, ops, lastOp, fs, aw

vars == <<disk, mem, issued, ops, lastOp, fs, aw>>

\* ------------------------------------------------------------------ bounds
MaxGoals == 2
MaxTasks == 3
MaxRetry == 1
MaxComments == 1
MaxOps == 10
MaxRaceOps == 4
MaxWrites == 2

GoalIds == 1..MaxGoals
TaskIds == 1..MaxTasks
Procs == {1, 2}

\* ------------------------------------------------------------ basic values
None == <<>>

Some(x) == <<x>>

IsSome(o) == o # <<>>

Unwrap(o) == o[1]

UnwrapOr(o, d) == IF o = <<>> THEN d ELSE o[1]

EmptyMap == [x \in {} |-> {}]

Closed == [open |-> FALSE]

Later(ts) == ts + 1

TaskStates == {"Pending", "Blocked", "InProgress", "Verifying", "Completed", "Failed"}

GoalStates == {"Pending", "InProgress", "Completed", "Failed"}

\* Inputs of create-task: the receives / produces / verify options.
ContractInputs == {<<None, None, None>>, <<Some("r"), None, Some("v")>>}

\* Inputs of complete-task: the tokens / elapsed options.
MetricInputs == {<<None, None>>, <<Some(100), Some(500)>>}

\* ------------------------------------------------------------ entity codec
StateToken(s) ==
    CASE s = "Pending" -> "pending"
      [] s = "Blocked" -> "blocked"
      [] s = "InProgress" -> "inprogress"
      [] s = "Verifying" -> "verifying"
      [] s = "Completed" -> "completed"
      [] s = "Failed" -> "failed"

TokenState(k) ==
    CASE k = "pending" -> "Pending"
      [] k = "blocked" -> "Blocked"
      [] k = "inprogress" -> "InProgress"
      [] k = "verifying" -> "Verifying"
      [] k = "completed" -> "Completed"
      [] k = "failed" -> "Failed"

\* A file is a table: a function from the keys present to their values.
OptKey(name, o) == IF IsSome(o) THEN (name :> Unwrap(o)) ELSE EmptyMap

\* Mutant of SerTask: the blocked_by key is never written.
SerTaskNoBlockedBy(t) ==
    [id |-> t.id, goal_id |-> t.goal_id, state |-> StateToken(t.state),
     created_at |-> t.created_at, updated_at |-> t.updated_at,
     metrics |-> t.metrics, comments |-> t.comments]
    @@ OptKey("contract", t.contract)
    @@ OptKey("result", t.result)
    @@ OptKey("completed_at", t.completed_at)

SerTask(t) ==
    [id |-> t.id, goal_id |-> t.goal_id, state |-> StateToken(t.state),
     created_at |-> t.created_at, updated_at |-> t.updated_at,
     metrics |-> t.metrics, comments |-> t.comments]
    @@ OptKey("contract", t.contract)
    @@ (IF t.blocked_by = {} THEN EmptyMap ELSE ("blocked_by" :> t.blocked_by))
    @@ OptKey("result", t.result)
    @@ OptKey("completed_at", t.completed_at)

OptField(f, name) == IF name \in DOMAIN f THEN Some(f[name]) ELSE None

DeTask(f) ==
    [id |-> f.id, goal_id |-> f.goal_id,
     contract |-> OptField(f, "contract"),
     state |-> TokenState(f.state),
     blocked_by |-> IF "blocked_by" \in DOMAIN f THEN f.blocked_by ELSE {},
     result |-> OptField(f, "result"),
     created_at |-> f.created_at, updated_at |-> f.updated_at,
     completed_at |-> OptField(f, "completed_at"),
     metrics |-> f.metrics,
     comments |-> IF "comments" \in DOMAIN f THEN f.comments ELSE <<>>]

SerGoal(g) ==
    [id |-> g.id, state |-> StateToken(g.state),
     created_at |-> g.created_at, updated_at |-> g.updated_at]
    @@ OptKey("completed_at", g.completed_at)

DeGoal(f) ==
    [id |-> f.id, state |-> TokenState(f.state),
     created_at |-> f.created_at, updated_at |-> f.updated_at,
     completed_at |-> OptField(f, "completed_at")]

\* ------------------------------------------------------------- the files
\* disk.goals[g] is <root>/g/goal.toml, disk.tasks[<<g, t>>] is <root>/g/t.toml
EmptyDisk == [goals |-> EmptyMap, tasks |-> EmptyMap]

AtomicWrite(f, path, content) == (path :> content) @@ f

TaskFilePath(t) == <<t.goal_id, t.id>>

WriteTaskFile(dsk, t) ==
    [dsk EXCEPT !.tasks = AtomicWrite(@, TaskFilePath(t), SerTask(t))]

WriteGoalFile(dsk, g) ==
    [dsk EXCEPT !.goals = AtomicWrite(@, g.id, SerGoal(g))]

\* ------------------------------------------------------------- Database
EmptyStore == [open |-> TRUE, goals |-> EmptyMap, tasks |-> EmptyMap]

\* load: every directory holding a goal.toml gives a goal, every other
\* .toml file in it gives a task, both keyed by the id inside the file.
Load(dsk) ==
    LET dirs == DOMAIN dsk.goals
        gs == {DeGoal(dsk.goals[d]) : d \in dirs}
        ts == {DeTask(dsk.tasks[p]) : p \in {q \in DOMAIN dsk.tasks : q[1] \in dirs}}
    IN [open |-> TRUE,
        goals |-> [i \in {g.id : g \in gs} |-> CHOOSE g \in gs : g.id = i],
        tasks |-> [i \in {t.id : t \in ts} |-> CHOOSE t \in ts : t.id = i]]

GetGoal(st, id) == IF id \in DOMAIN st.goals THEN Some(st.goals[id]) ELSE None

GetTask(st, id) == IF id \in DOMAIN st.tasks THEN Some(st.tasks[id]) ELSE None

RECURSIVE SortByCreatedAt(_)
SortByCreatedAt(S) ==
    IF S = {} THEN <<>>
    ELSE LET m == CHOOSE x \in S : \A y \in S : x.created_at <= y.created_at
         IN <<m>> \o SortByCreatedAt(S \ {m})

ListTasks(st, goal_id) ==
    SortByCreatedAt({st.tasks[i] : i \in {j \in DOMAIN st.tasks : st.tasks[j].goal_id = goal_id}})

\* Mutant of ListGoals: oldest first.
ListGoalsOldestFirst(st) == SortByCreatedAt({st.goals[i] : i \in DOMAIN st.goals})

\* list_goals: sort_by_key(Reverse(created_at)).
RECURSIVE SortByCreatedAtDesc(_)
SortByCreatedAtDesc(S) ==
    IF S = {} THEN <<>>
    ELSE LET m == CHOOSE x \in S : \A y \in S : x.created_at >= y.created_at
         IN <<m>> \o SortByCreatedAtDesc(S \ {m})

ListGoals(st) == SortByCreatedAtDesc({st.goals[i] : i \in DOMAIN st.goals})

RECURSIVE Sum(_)
Sum(s) == IF s = <<>> THEN 0 ELSE Head(s) + Sum(Tail(s))

IsCompleted(t) == t.state = "Completed"

IsFailed(t) == t.state = "Failed"

\* Mutant of ComputeGoalMetrics: elapsed_ms is summed from the tokens.
ComputeGoalMetricsTokensTwice(st, goal_id) ==
    LET tasks == ListTasks(st, goal_id)
        total_tokens == Sum([i \in DOMAIN tasks |-> tasks[i].metrics.tokens])
    IN [total_tokens |-> total_tokens, prompt_tokens |-> 0, completion_tokens |-> 0,
        elapsed_ms |-> total_tokens, task_count |-> Len(tasks),
        tasks_completed |-> Len(SelectSeq(tasks, IsCompleted)),
        tasks_failed |-> Len(SelectSeq(tasks, IsFailed))]

ComputeGoalMetrics(st, goal_id) ==
    LET tasks == ListTasks(st, goal_id)
        total_tokens == Sum([i \in DOMAIN tasks |-> tasks[i].metrics.tokens])
        elapsed_ms == Sum([i \in DOMAIN tasks |-> tasks[i].metrics.elapsed_ms])
    IN [total_tokens |-> total_tokens, prompt_tokens |-> 0, completion_tokens |-> 0,
        elapsed_ms |-> elapsed_ms, task_count |-> Len(tasks),
        tasks_completed |-> Len(SelectSeq(tasks, IsCompleted)),
        tasks_failed |-> Len(SelectSeq(tasks, IsFailed))]

IsReady(t) == t.state = "Pending" /\ t.contract # None

\* Mutant of ready: the contract is not looked at.
readyNoContract(st, goal_id) ==
    IF GetGoal(st, goal_id) = None THEN [ok |-> FALSE, out |-> <<>>]
    ELSE [ok |-> TRUE, out |-> SelectSeq(ListTasks(st, goal_id), LAMBDA t : t.state = "Pending")]

\* The ready query.
ready(st, goal_id) ==
    IF GetGoal(st, goal_id) = None THEN [ok |-> FALSE, out |-> <<>>]
    ELSE [ok |-> TRUE, out |-> SelectSeq(ListTasks(st, goal_id), IsReady)]

Range(s) == {s[i] : i \in DOMAIN s}

Err(st, dsk) == [ok |-> FALSE, st |-> st, dsk |-> dsk, out |-> None]

DbCreateGoal(st, dsk, goal) ==
    IF goal.id \in DOMAIN st.goals THEN Err(st, dsk)
    ELSE [ok |-> TRUE,
          st |-> [st EXCEPT !.goals = (goal.id :> goal) @@ @],
          dsk |-> WriteGoalFile(dsk, goal),
          out |-> None]

\* Mutant of DbCreateTask: an id already there is overwritten.
DbCreateTaskOverwrites(st, dsk, task) ==
    [ok |-> TRUE,
     st |-> [st EXCEPT !.tasks = (task.id :> task) @@ @],
     dsk |-> WriteTaskFile(dsk, task),
     out |-> None]

DbCreateTask(st, dsk, task) ==
    IF task.id \in DOMAIN st.tasks THEN Err(st, dsk)
    ELSE [ok |-> TRUE,
          st |-> [st EXCEPT !.tasks = (task.id :> task) @@ @],
          dsk |-> WriteTaskFile(dsk, task),
          out |-> None]

\* --------------------------------------------------- task state machine
\* Mutant of Transition: reports success without storing the new state.
TransitionKeepsState(task, from, to) ==
    IF task.state # from THEN [ok |-> FALSE, task |-> task]
    ELSE [ok |-> TRUE, task |-> [task EXCEPT !.updated_at = Later(@)]]

Transition(task, from, to) ==
    IF task.state # from THEN [ok |-> FALSE, task |-> task]
    ELSE [ok |-> TRUE,
          task |-> [task EXCEPT !.state = to, !.updated_at = Later(@)]]

\* Mutant of TransitionFromAny: only InProgress of the list is accepted.
TransitionFromAnyInProgressOnly(task, from, to) ==
    IF task.state # "InProgress" \/ task.state \notin from
    THEN [ok |-> FALSE, task |-> task]
    ELSE [ok |-> TRUE,
          task |-> [task EXCEPT !.state = to, !.updated_at = Later(@)]]

TransitionFromAny(task, from, to) ==
    IF task.state \notin from THEN [ok |-> FALSE, task |-> task]
    ELSE [ok |-> TRUE,
          task |-> [task EXCEPT !.state = to, !.updated_at = Later(@)]]

\* Mutant of TaskComplete: the metrics of the caller are not stored.
TaskCompleteKeepsMetrics(task, outcome, metrics) ==
    IF task.state # "InProgress" THEN [ok |-> FALSE, task |-> task]
    ELSE [ok |-> TRUE,
          task |-> [task EXCEPT !.state = "Completed",
                                !.result = Some(outcome),
                                !.updated_at = Later(task.updated_at),
                                !.completed_at = Some(Later(task.updated_at))]]

\* Mutant of TaskComplete: the outcome is not stored.
TaskCompleteNoResult(task, outcome, metrics) ==
    IF task.state # "InProgress" THEN [ok |-> FALSE, task |-> task]
    ELSE [ok |-> TRUE,
          task |-> [task EXCEPT !.state = "Completed",
                                !.metrics = metrics,
                                !.updated_at = Later(task.updated_at),
                                !.completed_at = Some(Later(task.updated_at))]]

TaskComplete(task, outcome, metrics) ==
    IF task.state # "InProgress" THEN [ok |-> FALSE, task |-> task]
    ELSE [ok |-> TRUE,
          task |-> [task EXCEPT !.state = "Completed",
                                !.result = Some(outcome),
                                !.metrics = metrics,
                                !.updated_at = Later(task.updated_at),
                                !.completed_at = Some(Later(task.updated_at))]]

\* Mutant of TaskRetry: the retry is not counted.
TaskRetryNoCount(task) ==
    IF task.state # "Failed" THEN [ok |-> FALSE, task |-> task]
    ELSE [ok |-> TRUE,
          task |-> [task EXCEPT !.state = "InProgress", !.updated_at = Later(@)]]

\* Mutant of TaskRetry: the retry is counted before the guard is looked at.
TaskRetryCountsFirst(task) ==
    LET counted == [task EXCEPT !.metrics.retry_count = @ + 1]
    IN IF task.state # "Failed" THEN [ok |-> FALSE, task |-> counted]
       ELSE [ok |-> TRUE,
             task |-> [counted EXCEPT !.state = "InProgress", !.updated_at = Later(@)]]

\* Mutant of TaskRetry: the task goes back to Pending.
TaskRetryToPending(task) ==
    IF task.state # "Failed" THEN [ok |-> FALSE, task |-> task]
    ELSE [ok |-> TRUE,
          task |-> [task EXCEPT !.state = "Pending",
                                !.metrics.retry_count = @ + 1,
                                !.updated_at = Later(@)]]

TaskRetry(task) ==
    IF task.state # "Failed" THEN [ok |-> FALSE, task |-> task]
    ELSE [ok |-> TRUE,
          task |-> [task EXCEPT !.state = "InProgress",
                                !.metrics.retry_count = @ + 1,
                                !.updated_at = Later(@)]]

\* ------------------------------- Database operations used by the commands
\* Whole-record replace: fails if the id is unknown, persists the new value.
DbUpdateTask(st, dsk, task) ==
    IF task.id \notin DOMAIN st.tasks THEN Err(st, dsk)
    ELSE [ok |-> TRUE,
          st |-> [st EXCEPT !.tasks[task.id] = task],
          dsk |-> WriteTaskFile(dsk, task),
          out |-> None]

DbUpdateGoal(st, dsk, goal) ==
    IF goal.id \notin DOMAIN st.goals THEN Err(st, dsk)
    ELSE [ok |-> TRUE,
          st |-> [st EXCEPT !.goals[goal.id] = goal],
          dsk |-> WriteGoalFile(dsk, goal),
          out |-> None]

\* A transition applies the task primitive to the record of the Store and
\* persists the record when the primitive reports success.
Persisted(st, dsk, r) ==
    IF r.ok THEN DbUpdateTask(st, dsk, r.task) ELSE Err(st, dsk)

DbTransitionTaskState(st, dsk, id, from, to) ==
    IF id \notin DOMAIN st.tasks THEN Err(st, dsk)
    ELSE Persisted(st, dsk, Transition(st.tasks[id], from, to))

DbTransitionTaskStateFromAny(st, dsk, id, from, to) ==
    IF id \notin DOMAIN st.tasks THEN Err(st, dsk)
    ELSE Persisted(st, dsk, TransitionFromAny(st.tasks[id], from, to))

DbCompleteTask(st, dsk, id, summary, artifacts, tokens, elapsed) ==
    IF id \notin DOMAIN st.tasks THEN Err(st, dsk)
    ELSE LET t == st.tasks[id]
         IN Persisted(st, dsk,
                TaskComplete(t, [summary |-> summary, artifacts |-> artifacts],
                             [tokens |-> tokens, elapsed_ms |-> elapsed,
                              retry_count |-> t.metrics.retry_count]))

DbRetryTask(st, dsk, id) ==
    IF id \notin DOMAIN st.tasks THEN Err(st, dsk)
    ELSE Persisted(st, dsk, TaskRetry(st.tasks[id]))

\* generate_id: an id no record of the directory carries yet.
Min(S) == CHOOSE x \in S : \A y \in S : x <= y

FreshGoalIds(dsk) == GoalIds \ DOMAIN dsk.goals

FreshTaskIds(dsk) == TaskIds \ {p[2] : p \in DOMAIN dsk.tasks}

Now(dsk) == Cardinality(DOMAIN dsk.goals) + Cardinality(DOMAIN dsk.tasks) + 1

\* ------------------------------------------------------------- commands
NewGoal(id, now) ==
    [id |-> id, state |-> "Pending", created_at |-> now, updated_at |-> now,
     completed_at |-> None]

goal_create(st, dsk, id) ==
    LET goal == NewGoal(id, Now(dsk))
        r == DbCreateGoal(st, dsk, goal)
    IN [r EXCEPT !.out = IF r.ok THEN Some(goal) ELSE None]

BuildContract(receives, produces, verify) ==
    IF IsSome(receives) \/ IsSome(produces) \/ IsSome(verify)
    THEN Some([receives |-> UnwrapOr(receives, ""),
               produces |-> UnwrapOr(produces, ""),
               verify |-> UnwrapOr(verify, "")])
    ELSE None

\* Mutant of InitialState: every new task is Blocked.
InitialStateAlwaysBlocked(blocked_by_ids) == "Blocked"

\* Mutant of InitialState: every new task is Pending.
InitialStateAlwaysPending(blocked_by_ids) == "Pending"

InitialState(blocked_by_ids) ==
    IF blocked_by_ids = {} THEN "Pending" ELSE "Blocked"

NewTask(id, goal_id, contract, blocked_by_ids, now) ==
    [id |-> id, goal_id |-> goal_id, contract |-> contract,
     state |-> InitialState(blocked_by_ids),
     blocked_by |-> blocked_by_ids, result |-> None,
     created_at |-> now, updated_at |-> now, completed_at |-> None,
     metrics |-> [tokens |-> 0, elapsed_ms |-> 0, retry_count |-> 0],
     comments |-> <<>>]

\* Mutant of BlockersExist: the ids are not looked up.
BlockersExistUnchecked(st, goal_id, blocked_by) == TRUE

\* Mutant of BlockersExist: a task of any goal is accepted as a blocker.
BlockersExistAnyGoal(st, goal_id, blocked_by) ==
    \/ blocked_by = None
    \/ \A task_id \in Unwrap(blocked_by) : task_id \in DOMAIN st.tasks

BlockersExist(st, goal_id, blocked_by) ==
    \/ blocked_by = None
    \/ LET existing_task_ids == {t.id : t \in Range(ListTasks(st, goal_id))}
       IN \A task_id \in Unwrap(blocked_by) : task_id \in existing_task_ids

\* Mutant of GoalAfterCreate: the goal is InProgress after every create.
GoalAfterCreateAlwaysInProgress(goal) ==
    [goal EXCEPT !.updated_at = Later(@), !.state = "InProgress"]

GoalAfterCreate(goal) ==
    [goal EXCEPT !.updated_at = Later(@),
                 !.state = IF @ = "Pending" THEN "InProgress" ELSE @]

create(st, dsk, id, goal_id, cin, blocked_by) ==
    LET goal == GetGoal(st, goal_id)
    IN IF goal = None THEN Err(st, dsk)
       ELSE IF ~BlockersExist(st, goal_id, blocked_by) THEN Err(st, dsk)
       ELSE LET task == NewTask(id, goal_id, BuildContract(cin[1], cin[2], cin[3]),
                                UnwrapOr(blocked_by, {}), Now(dsk))
                r1 == DbCreateTask(st, dsk, task)
            IN IF ~r1.ok THEN r1
               ELSE LET r2 == DbUpdateGoal(r1.st, r1.dsk, GoalAfterCreate(Unwrap(goal)))
                    IN [r2 EXCEPT !.out = IF r2.ok THEN Some(task) ELSE None]

\* Mutant of StartRefused: the contract is not looked at.
StartRefusedNoContract(task) ==
    \/ task.state = "Blocked" /\ task.blocked_by # {}
    \/ task.state # "Pending"

StartRefused(task) ==
    \/ task.contract = None
    \/ task.state = "Blocked" /\ task.blocked_by # {}
    \/ task.state # "Pending"

start(st, dsk, id) ==
    LET task == GetTask(st, id)
    IN IF task = None THEN Err(st, dsk)
       ELSE IF StartRefused(Unwrap(task)) THEN Err(st, dsk)
       ELSE LET r == DbTransitionTaskState(st, dsk, id, "Pending", "InProgress")
            IN IF ~r.ok THEN r
               ELSE [r EXCEPT !.out = GetTask(r.st, id)]

\* Mutant of AllBlockersDone: one Completed blocker is enough.
AnyBlockerDone(all_tasks, dependent_task) ==
    \E blocker_id \in dependent_task.blocked_by :
        \E i \in DOMAIN all_tasks :
            all_tasks[i].id = blocker_id /\ all_tasks[i].state = "Completed"

AllBlockersDone(all_tasks, dependent_task) ==
    \A blocker_id \in dependent_task.blocked_by :
        \E i \in DOMAIN all_tasks :
            all_tasks[i].id = blocker_id /\ all_tasks[i].state = "Completed"

\* Mutant of ShouldUnblock: the other blockers are not looked at.
ShouldUnblockNoCheck(all_tasks, dependent_task, completed_task_id) ==
    /\ dependent_task.state = "Blocked"
    /\ completed_task_id \in dependent_task.blocked_by

\* Mutant of ShouldUnblock: every Blocked task of the goal is unblocked.
ShouldUnblockAnyBlocked(all_tasks, dependent_task, completed_task_id) ==
    dependent_task.state = "Blocked"

\* Mutant of ShouldUnblock: no sibling is ever unblocked.
ShouldUnblockNever(all_tasks, dependent_task, completed_task_id) == FALSE

ShouldUnblock(all_tasks, dependent_task, completed_task_id) ==
    /\ dependent_task.state = "Blocked"
    /\ completed_task_id \in dependent_task.blocked_by
    /\ AllBlockersDone(all_tasks, dependent_task)

\* Mutant of Unblocked: the unblocked task is started at once.
UnblockedToInProgress(dependent_task) ==
    [dependent_task EXCEPT !.state = "InProgress", !.updated_at = Later(@)]

Unblocked(dependent_task) ==
    [dependent_task EXCEPT !.state = "Pending", !.updated_at = Later(@)]

\* Mutant of Resolve: the id of an unblocked sibling is not recorded.
RECURSIVE ResolveNoRecord(_, _, _, _, _, _)
ResolveNoRecord(st, dsk, all_tasks, i, completed_task_id, unblocked_task_ids) ==
    IF i > Len(all_tasks)
    THEN [ok |-> TRUE, st |-> st, dsk |-> dsk, out |-> unblocked_task_ids]
    ELSE IF ShouldUnblock(all_tasks, all_tasks[i], completed_task_id)
         THEN LET r == DbUpdateTask(st, dsk, Unblocked(all_tasks[i]))
              IN IF ~r.ok THEN r
                 ELSE ResolveNoRecord(r.st, r.dsk, all_tasks, i + 1,
                                      completed_task_id, unblocked_task_ids)
         ELSE ResolveNoRecord(st, dsk, all_tasks, i + 1, completed_task_id,
                              unblocked_task_ids)

\* The loop over all_tasks: one update_task per unblocked sibling, in order.
RECURSIVE Resolve(_, _, _, _, _, _)
Resolve(st, dsk, all_tasks, i, completed_task_id, unblocked_task_ids) ==
    IF i > Len(all_tasks)
    THEN [ok |-> TRUE, st |-> st, dsk |-> dsk, out |-> unblocked_task_ids]
    ELSE IF ShouldUnblock(all_tasks, all_tasks[i], completed_task_id)
         THEN LET r == DbUpdateTask(st, dsk, Unblocked(all_tasks[i]))
              IN IF ~r.ok THEN r
                 ELSE Resolve(r.st, r.dsk, all_tasks, i + 1, completed_task_id,
                              Append(unblocked_task_ids, all_tasks[i].id))
         ELSE Resolve(st, dsk, all_tasks, i + 1, completed_task_id, unblocked_task_ids)

\* Mutant of RecomputeGoal: one Completed task closes the goal.
RecomputeGoalAnyCompleted(goal, all_tasks) ==
    LET all_completed == \E i \in DOMAIN all_tasks : all_tasks[i].state = "Completed"
        any_failed == \E i \in DOMAIN all_tasks : all_tasks[i].state = "Failed"
    IN IF all_completed
       THEN [goal EXCEPT !.state = "Completed", !.completed_at = Some(goal.updated_at)]
       ELSE IF any_failed THEN [goal EXCEPT !.state = "Failed"]
       ELSE goal

RecomputeGoal(goal, all_tasks) ==
    LET all_completed == \A i \in DOMAIN all_tasks : all_tasks[i].state = "Completed"
        any_failed == \E i \in DOMAIN all_tasks : all_tasks[i].state = "Failed"
    IN IF all_completed
       THEN [goal EXCEPT !.state = "Completed", !.completed_at = Some(goal.updated_at)]
       ELSE IF any_failed THEN [goal EXCEPT !.state = "Failed"]
       ELSE goal

complete(st, dsk, id, result_summary, artifacts, tokens, elapsed) ==
    LET found == GetTask(st, id)
    IN IF found = None THEN Err(st, dsk)
       ELSE IF Unwrap(found).state # "InProgress" THEN Err(st, dsk)
       ELSE LET r1 == DbCompleteTask(st, dsk, id, result_summary,
                                     UnwrapOr(artifacts, <<>>),
                                     UnwrapOr(tokens, 0), UnwrapOr(elapsed, 0))
            IN IF ~r1.ok THEN r1
               ELSE LET task == r1.st.tasks[id]
                        got == GetGoal(r1.st, task.goal_id)
                    IN IF got = None THEN Err(r1.st, r1.dsk)
                       ELSE LET goal == [Unwrap(got) EXCEPT !.updated_at = Later(@)]
                                r2 == Resolve(r1.st, r1.dsk, ListTasks(r1.st, goal.id),
                                              1, task.id, <<>>)
                            IN IF ~r2.ok THEN r2
                               ELSE LET r3 == DbUpdateGoal(r2.st, r2.dsk,
                                                 RecomputeGoal(goal, ListTasks(r2.st, goal.id)))
                                    IN [r3 EXCEPT !.out =
                                          IF r3.ok
                                          THEN Some([task |-> task,
                                                     unblocked_task_ids |-> r2.out])
                                          ELSE None]

\* The directory after each write of one complete call, in the order of the
\* code: the task (complete_task), each unblocked sibling (update_task in
\* the loop), the goal (update_goal).
RECURSIVE SiblingDisks(_, _, _, _)
SiblingDisks(dsk, st, unblocked_task_ids, j) ==
    IF j > Len(unblocked_task_ids) THEN <<>>
    ELSE LET d == WriteTaskFile(dsk, Unblocked(st.tasks[unblocked_task_ids[j]]))
         IN <<d>> \o SiblingDisks(d, st, unblocked_task_ids, j + 1)

\* Mutant of CompleteDisks: the goal is written before the task.
CompleteDisksGoalFirst(st, dsk, id, result_summary, artifacts, tokens, elapsed) ==
    LET r == complete(st, dsk, id, result_summary, artifacts, tokens, elapsed)
        g == st.tasks[id].goal_id
        d1 == WriteGoalFile(dsk, r.st.goals[g])
    IN <<d1, WriteTaskFile(d1, r.st.tasks[id]), r.dsk>>

CompleteDisks(st, dsk, id, result_summary, artifacts, tokens, elapsed) ==
    LET r1 == DbCompleteTask(st, dsk, id, result_summary, UnwrapOr(artifacts, <<>>),
                             UnwrapOr(tokens, 0), UnwrapOr(elapsed, 0))
        task == r1.st.tasks[id]
        goal == [r1.st.goals[task.goal_id] EXCEPT !.updated_at = Later(@)]
        r2 == Resolve(r1.st, r1.dsk, ListTasks(r1.st, goal.id), 1, task.id, <<>>)
        r3 == DbUpdateGoal(r2.st, r2.dsk, RecomputeGoal(goal, ListTasks(r2.st, goal.id)))
    IN <<r1.dsk>> \o SiblingDisks(r1.dsk, r1.st, r2.out, 1) \o <<r3.dsk>>

fail(st, dsk, id) ==
    LET task == GetTask(st, id)
    IN IF task = None THEN Err(st, dsk)
       ELSE IF Unwrap(task).state \notin {"InProgress", "Verifying"} THEN Err(st, dsk)
       ELSE LET r == DbTransitionTaskStateFromAny(st, dsk, id,
                         {"InProgress", "Verifying"}, "Failed")
            IN IF ~r.ok THEN r
               ELSE [r EXCEPT !.out = GetTask(r.st, id)]

retry(st, dsk, id) ==
    LET task == GetTask(st, id)
    IN IF task = None THEN Err(st, dsk)
       ELSE IF Unwrap(task).state # "Failed" THEN Err(st, dsk)
       ELSE LET r == DbRetryTask(st, dsk, id)
            IN IF ~r.ok THEN r
               ELSE [r EXCEPT !.out = GetTask(r.st, id)]

\* Mutant of AddComment: the new comment is put first.
AddCommentPrepend(task, cid, text) ==
    [task EXCEPT !.comments = <<[id |-> cid, text |-> text,
                                 created_at |-> Later(task.updated_at)]>> \o @,
                 !.updated_at = Later(@)]

\* Mutant of AddComment: the comment also resets created_at.
AddCommentResetsCreatedAt(task, cid, text) ==
    [task EXCEPT !.comments = Append(@, [id |-> cid, text |-> text,
                                         created_at |-> Later(task.updated_at)]),
                 !.created_at = Later(task.updated_at),
                 !.updated_at = Later(@)]

AddComment(task, cid, text) ==
    [task EXCEPT !.comments = Append(@, [id |-> cid, text |-> text,
                                         created_at |-> Later(task.updated_at)]),
                 !.updated_at = Later(@)]

comment(st, dsk, id, cid, text) ==
    LET found == GetTask(st, id)
    IN IF found = None THEN Err(st, dsk)
       ELSE LET task == AddComment(Unwrap(found), cid, text)
                r == DbUpdateTask(st, dsk, task)
            IN [r EXCEPT !.out = IF r.ok THEN Some(task) ELSE None]

\* No command has reported yet.
NoOp == [op |-> "none", id |-> 0, proc |-> 0, unblocked |-> <<>>]

\* ------------------------------------------- atomic_write, step by step
\* The file system under one entity file: dir maps the names that exist to
\* inodes; an inode holds its bytes, whether they were synced since the last
\* change, and the process holding the exclusive lock on it (0: nobody).
\* A path is <<stem, extension>>.
NoFiles == [dir |-> EmptyMap, inodes |-> EmptyMap]

IdleWriter == [pc |-> "idle", content |-> <<>>, fd |-> 0, off |-> 0,
               runs |-> 0, res |-> "none"]

EntityPath == <<"task", "toml">>

\* The buffers a caller hands over; none is a prefix of another.
Buffers == {<<1, 2>>, <<3, 4, 5>>}

\* Mutant of TempPath: the extension of the target is kept.
TempPathSameExtension(path) == <<path[1], "toml">>

\* Mutant of TempPath: the bytes go straight to the target.
TempPathIsTarget(path) == path

\* path.with_extension("toml.tmp")
TempPath(path) == <<path[1], "toml.tmp">>

FreshInode(f) == Min((1..(Cardinality(DOMAIN f.inodes) + 1)) \ DOMAIN f.inodes)

\* Inodes that no name and no open file refers to are gone.
Collect(f, w) ==
    LET live == {f.dir[n] : n \in DOMAIN f.dir} \cup {w[p].fd : p \in DOMAIN w}
    IN [f EXCEPT !.inodes = [i \in DOMAIN f.inodes \cap live |-> f.inodes[i]]]

\* File::create: open for writing, create if missing, truncate if present.
FileCreate(f, name) ==
    IF name \in DOMAIN f.dir
    THEN [ino |-> f.dir[name],
          fs |-> [f EXCEPT !.inodes[f.dir[name]].data = <<>>,
                           !.inodes[f.dir[name]].synced = FALSE]]
    ELSE LET i == FreshInode(f)
         IN [ino |-> i,
             fs |-> [dir |-> (name :> i) @@ f.dir,
                     inodes |-> (i :> [data |-> <<>>, synced |-> FALSE, lock |-> 0])
                                @@ f.inodes]]

\* One write call of write_all: bytes go at the offset of the open file; a
\* gap left by a truncation reads as zeros.
WriteAt(data, off, bytes) ==
    LET n == IF Len(data) > off + Len(bytes) THEN Len(data) ELSE off + Len(bytes)
    IN [k \in 1..n |->
           IF k > off /\ k <= off + Len(bytes) THEN bytes[k - off]
           ELSE IF k <= Len(data) THEN data[k]
           ELSE 0]

\* fs::rename: the name to points at the inode of from; from is gone.
Rename(f, from, to) ==
    IF from \notin DOMAIN f.dir THEN [ok |-> FALSE, fs |-> f]
    ELSE IF from = to THEN [ok |-> TRUE, fs |-> f]
    ELSE [ok |-> TRUE,
          fs |-> [f EXCEPT !.dir = [n \in (DOMAIN f.dir \cup {to}) \ {from} |->
                                       IF n = to THEN f.dir[from] ELSE f.dir[n]]]]

\* What a reader of the path gets.
ReadPath(f, path) ==
    IF path \in DOMAIN f.dir THEN Some(f.inodes[f.dir[path]].data) ELSE None

\* Closing the file gives up its lock.
CloseFile(f, p, ino) ==
    IF ino \in DOMAIN f.inodes /\ f.inodes[ino].lock = p
    THEN [f EXCEPT !.inodes[ino].lock = 0] ELSE f

AwFrame == UNCHANGED <<disk, mem, issued, ops, lastOp>>

\* A caller enters atomic_write(EntityPath, content).
AwCall(p, content) ==
    /\ aw[p].pc = "idle"
    /\ aw[p].runs < MaxWrites
    /\ aw' = [aw EXCEPT ![p] = [pc |-> "create", content |-> content, fd |-> 0,
                                off |-> 0, runs |-> aw[p].runs + 1, res |-> "none"]]
    /\ UNCHANGED fs
    /\ AwFrame

AwCreate(p) ==
    /\ aw[p].pc = "create"
    /\ LET c == FileCreate(fs, TempPath(EntityPath))
           w == [aw EXCEPT ![p].pc = "lock", ![p].fd = c.ino]
       IN aw' = w /\ fs' = Collect(c.fs, w)
    /\ AwFrame

\* lock_exclusive waits while another process holds the lock.
AwLock(p) ==
    /\ aw[p].pc = "lock"
    /\ fs.inodes[aw[p].fd].lock = 0
    /\ fs' = [fs EXCEPT !.inodes[aw[p].fd].lock = p]
    /\ aw' = [aw EXCEPT ![p].pc = "write"]
    /\ AwFrame

\* write_all: write calls of n bytes each until the buffer is out.
AwWrite(p, n) ==
    /\ aw[p].pc = "write"
    /\ aw[p].off + n <= Len(aw[p].content)
    /\ LET bytes == SubSeq(aw[p].content, aw[p].off + 1, aw[p].off + n)
           ino == aw[p].fd
       IN /\ fs' = [fs EXCEPT !.inodes[ino].data = WriteAt(@, aw[p].off, bytes),
                              !.inodes[ino].synced = FALSE]
          /\ aw' = [aw EXCEPT ![p].off = @ + n,
                              ![p].pc = IF aw[p].off + n = Len(aw[p].content)
                                        THEN "sync" ELSE "write"]
    /\ AwFrame

AwSync(p) ==
    /\ aw[p].pc = "sync"
    /\ fs' = [fs EXCEPT !.inodes[aw[p].fd].synced = TRUE]
    /\ aw' = [aw EXCEPT ![p].pc = "unlock"]
    /\ AwFrame

AwUnlock(p) ==
    /\ aw[p].pc = "unlock"
    /\ fs' = [fs EXCEPT !.inodes[aw[p].fd].lock =
                            IF @ = p THEN 0 ELSE @]
    /\ aw' = [aw EXCEPT ![p].pc = "rename"]
    /\ AwFrame

\* The rename ends the call either way; the file is dropped on return.
AwRename(p) ==
    /\ aw[p].pc = "rename"
    /\ LET r == Rename(fs, TempPath(EntityPath), EntityPath)
           w == [aw EXCEPT ![p].pc = "idle", ![p].fd = 0,
                           ![p].res = IF r.ok THEN "ok" ELSE "err"]
       IN aw' = w /\ fs' = Collect(r.fs, w)
    /\ AwFrame

\* The process dies inside the call: its open file and its lock go with it.
AwCrash(p) ==
    /\ aw[p].pc \notin {"idle", "create"}
    /\ LET w == [aw EXCEPT ![p].pc = "idle", ![p].fd = 0, ![p].res = "crashed"]
       IN aw' = w /\ fs' = Collect(CloseFile(fs, p, aw[p].fd), w)
    /\ AwFrame

AwStep(p) ==
    \/ \E content \in Buffers : AwCall(p, content)
    \/ AwCreate(p)
    \/ AwLock(p)
    \/ \E n \in 1..2 : AwWrite(p, n)
    \/ AwSync(p)
    \/ AwUnlock(p)
    \/ AwRename(p)
    \/ AwCrash(p)

\* The entity file is absent or holds a buffer written earlier.
InitAW ==
    /\ disk = EmptyDisk
    /\ mem = [p \in Procs |-> Closed]
    /\ issued = 0
    /\ ops = 0
    /\ lastOp = NoOp
    /\ aw = [p \in Procs |-> IdleWriter]
    /\ fs \in {NoFiles} \cup
             {[dir |-> (EntityPath :> 1),
               inodes |-> (1 :> [data |-> b, synced |-> TRUE, lock |-> 0])] :
                  b \in Buffers}

\* One writer at a time.
NextAW1 == AwStep(1)

SpecAW1 == InitAW /\ [][NextAW1]_vars

\* Two processes writing the same entity file.
NextAW2 == \E p \in Procs : AwStep(p)

SpecAW2 == InitAW /\ [][NextAW2]_vars

\* A step of atomic_write fails with an I/O error: the call returns the
\* error and the file, if it was opened, is dropped.  A write_all that fails
\* may have put a part of the buffer into the file before.
AwIoError(p) ==
    /\ aw[p].pc \notin {"idle"}
    /\ LET w == [aw EXCEPT ![p].pc = "idle", ![p].fd = 0, ![p].res = "err"]
       IN aw' = w /\ fs' = Collect(CloseFile(fs, p, aw[p].fd), w)
    /\ AwFrame

\* One writer at a time whose steps may fail.
NextAWErr == AwStep(1) \/ AwIoError(1)

SpecAWErr == InitAW /\ [][NextAWErr]_vars

\* -------------------------------------------------------------- actions
\* The outcome r of a command becomes the new state; a process that runs
\* one command per invocation (exit) drops its Store afterwards and reports
\* its success (lastOp).  ops counts the commands that succeeded since Init;
\* MaxOps and MaxRaceOps bound the runs explored.
Done(p, r, exit, op, id, unblocked) ==
    /\ ops < (IF exit THEN MaxRaceOps ELSE MaxOps)
    /\ disk' = r.dsk
    /\ mem' = [mem EXCEPT ![p] = IF exit THEN Closed ELSE r.st]
    /\ ops' = IF r.ok THEN ops + 1 ELSE ops
    /\ lastOp' = IF exit /\ r.ok
                 THEN [op |-> op, id |-> id, proc |-> p, unblocked |-> unblocked]
                 ELSE lastOp
    /\ UNCHANGED <<fs, aw>>

Open(p) ==
    /\ ~mem[p].open
    /\ mem' = [mem EXCEPT ![p] = Load(disk)]
    /\ UNCHANGED <<disk, issued, ops, lastOp, fs, aw>>

CreateGoal(p, exit) ==
    /\ mem[p].open
    /\ FreshGoalIds(disk) # {}
    /\ LET id == Min(FreshGoalIds(disk))
       IN Done(p, goal_create(mem[p], disk, id), exit, "goal_create", id, <<>>)
    /\ UNCHANGED issued

CreateTask(p, goal_id, cin, blocked_by, exit) ==
    /\ mem[p].open
    /\ FreshTaskIds(disk) # {}
    /\ LET id == Min(FreshTaskIds(disk))
       IN Done(p, create(mem[p], disk, id, goal_id, cin, blocked_by), exit,
               "create", id, <<>>)
    /\ UNCHANGED issued

StartTask(p, id, exit) ==
    /\ mem[p].open
    /\ Done(p, start(mem[p], disk, id), exit, "start", id, <<>>)
    /\ UNCHANGED issued

CompleteTask(p, id, min, exit) ==
    /\ mem[p].open
    /\ LET r == complete(mem[p], disk, id, "done", None, min[1], min[2])
       IN Done(p, r, exit, "complete", id,
               IF r.ok THEN Unwrap(r.out).unblocked_task_ids ELSE <<>>)
    /\ UNCHANGED issued

FailTask(p, id, exit) ==
    /\ mem[p].open
    /\ Done(p, fail(mem[p], disk, id), exit, "fail", id, <<>>)
    /\ UNCHANGED issued

RetryTask(p, id, exit) ==
    /\ mem[p].open
    /\ id \in DOMAIN mem[p].tasks => mem[p].tasks[id].metrics.retry_count < MaxRetry
    /\ Done(p, retry(mem[p], disk, id), exit, "retry", id, <<>>)
    /\ UNCHANGED issued

CommentTask(p, id, exit) ==
    /\ mem[p].open
    /\ issued < MaxComments
    /\ LET r == comment(mem[p], disk, id, issued + 1, "note")
       IN /\ Done(p, r, exit, "comment", id, <<>>)
          /\ issued' = IF r.ok THEN issued + 1 ELSE issued

BlockedByInputs == {None} \cup {Some(S) : S \in SUBSET TaskIds}

\* ------------------------------------- one process, one Store (library use)
Init ==
    /\ disk = EmptyDisk
    /\ mem = [p \in Procs |-> IF p = 1 THEN Load(EmptyDisk) ELSE Closed]
    /\ issued = 0
    /\ ops = 0
    /\ lastOp = NoOp
    /\ fs = NoFiles
    /\ aw = [p \in Procs |-> IdleWriter]

Next ==
    \/ CreateGoal(1, FALSE)
    \/ \E goal_id \in GoalIds, cin \in ContractInputs, blocked_by \in BlockedByInputs :
          CreateTask(1, goal_id, cin, blocked_by, FALSE)
    \/ \E id \in TaskIds : StartTask(1, id, FALSE)
    \/ \E id \in TaskIds, min \in MetricInputs : CompleteTask(1, id, min, FALSE)
    \/ \E id \in TaskIds : FailTask(1, id, FALSE)
    \/ \E id \in TaskIds : RetryTask(1, id, FALSE)
    \/ \E id \in TaskIds : CommentTask(1, id, FALSE)

Spec == Init /\ [][Next]_vars

\* The Store of the single process and its directory.
db == mem[1]

TypeOK ==
    /\ db.open
    /\ \A i \in DOMAIN db.tasks : db.tasks[i].state \in TaskStates
    /\ \A g \in DOMAIN db.goals : db.goals[g].state \in GoalStates
    /\ Load(disk) = db

\* --------------- two processes, each running one command per invocation
\* The directory the processes find: one goal whose tasks, all with a
\* contract, were created one after the other by earlier invocations.
WithContract == <<Some("r"), None, Some("v")>>

RECURSIVE SeedRun(_, _)
SeedRun(r, script) ==
    IF script = <<>> THEN r
    ELSE SeedRun(create(r.st, r.dsk, Min(FreshTaskIds(r.dsk)), 1, WithContract,
                        Head(script)),
                 Tail(script))

SeedScripts ==
    {sc \in UNION {[1..n -> BlockedByInputs] : n \in {MaxTasks}} :
        \A i \in DOMAIN sc :
            sc[i] = None \/ (Unwrap(sc[i]) # {} /\ Unwrap(sc[i]) \subseteq 1..(i - 1))}

SeedDisks ==
    {SeedRun(goal_create(Load(EmptyDisk), EmptyDisk, 1), sc).dsk : sc \in SeedScripts}

InitMP ==
    /\ disk \in SeedDisks
    /\ mem = [p \in Procs |-> Closed]
    /\ issued = 0
    /\ ops = 0
    /\ lastOp = NoOp
    /\ fs = NoFiles
    /\ aw = [p \in Procs |-> IdleWriter]

NextMP ==
    \E p \in Procs :
        \/ Open(p)
        \/ \E id \in TaskIds : StartTask(p, id, TRUE)
        \/ \E id \in TaskIds, min \in MetricInputs : CompleteTask(p, id, min, TRUE)
        \/ \E id \in TaskIds : FailTask(p, id, TRUE)
        \/ \E id \in TaskIds : RetryTask(p, id, TRUE)
        \/ \E id \in TaskIds : CommentTask(p, id, TRUE)

SpecMP == InitMP /\ [][NextMP]_vars

\* A process dies inside complete after k of its writes reached the
\* directory and before the last one.
CompleteTaskCrash(p, id, min, k) ==
    /\ mem[p].open
    /\ ops < MaxRaceOps
    /\ complete(mem[p], disk, id, "done", None, min[1], min[2]).ok
    /\ LET ds == CompleteDisks(mem[p], disk, id, "done", None, min[1], min[2])
       IN /\ k < Len(ds)
          /\ disk' = ds[k]
    /\ mem' = [mem EXCEPT ![p] = Closed]
    /\ ops' = ops + 1
    /\ lastOp' = [op |-> "crash", id |-> id, proc |-> p, unblocked |-> <<>>]
    /\ UNCHANGED <<issued, fs, aw>>

\* One process after the other, each running one command or dying in it.
NextCrash ==
    \/ Open(1)
    \/ \E id \in TaskIds : StartTask(1, id, TRUE)
    \/ \E id \in TaskIds, min \in MetricInputs : CompleteTask(1, id, min, TRUE)
    \/ \E id \in TaskIds : FailTask(1, id, TRUE)
    \/ \E id \in TaskIds : RetryTask(1, id, TRUE)
    \/ \E id \in TaskIds : CommentTask(1, id, TRUE)
    \/ \E id \in TaskIds, min \in MetricInputs, k \in 1..MaxTasks :
          CompleteTaskCrash(1, id, min, k)

SpecCrash == InitMP /\ [][NextCrash]_vars

\* ------------------------------------ one process that starts and completes
\* A goal with up to MaxTasks tasks, each with a contract and blocked by
\* older tasks or by none, all created before the first start.
LiveScripts ==
    {sc \in UNION {[1..n -> BlockedByInputs] : n \in 0..MaxTasks} :
        \A i \in DOMAIN sc :
            sc[i] = None \/ (Unwrap(sc[i]) # {} /\ Unwrap(sc[i]) \subseteq 1..(i - 1))}

LiveDisks ==
    {SeedRun(goal_create(Load(EmptyDisk), EmptyDisk, 1), sc).dsk : sc \in LiveScripts}

InitLive ==
    /\ disk \in LiveDisks
    /\ mem = [p \in Procs |-> IF p = 1 THEN Load(disk) ELSE Closed]
    /\ issued = 0
    /\ ops = 0
    /\ lastOp = NoOp
    /\ fs = NoFiles
    /\ aw = [p \in Procs |-> IdleWriter]

StartSome(id) == StartTask(1, id, FALSE)

CompleteSome(id) == \E min \in MetricInputs : CompleteTask(1, id, min, FALSE)

NextLive ==
    \/ \E id \in TaskIds : StartSome(id)
    \/ \E id \in TaskIds : CompleteSome(id)

\* ENABLED <<CompleteSome(id)>>_vars: the Store is open, the task is there
\* and InProgress, which is all complete asks for.
CompleteEnabled(id) ==
    /\ mem[1].open
    /\ ops < MaxOps
    /\ id \in DOMAIN mem[1].tasks
    /\ mem[1].tasks[id].state = "InProgress"

\* WF_vars(CompleteSome(id)), with its ENABLED written out.
FairComplete(id) ==
    []<>(~CompleteEnabled(id)) \/ []<><<CompleteSome(id)>>_vars

\* The caller keeps starting what is Pending and completing what is
\* InProgress.
SpecLive ==
    /\ InitLive
    /\ [][NextLive]_vars
    /\ \A id \in TaskIds : WF_vars(StartSome(id)) /\ FairComplete(id)

\* --------------------------------------------- open on a damaged directory
\* The directory of the Store, and a path where nothing exists.
RootDir == "radial"

OpenPaths == {RootDir, "missing"}

PathExists(path) == path = RootDir

\* toml::from_str: every field without a default is there and the state is
\* one of the lowercase tokens of its enum.
GoalKeys == {"id", "state", "created_at", "updated_at"}

TaskKeys == {"id", "goal_id", "state", "created_at", "updated_at", "metrics"}

ParsesGoal(f) ==
    /\ GoalKeys \subseteq DOMAIN f
    /\ f.state \in {StateToken(st) : st \in GoalStates}

ParsesTask(f) ==
    /\ TaskKeys \subseteq DOMAIN f
    /\ f.state \in {StateToken(st) : st \in TaskStates}

\* The task files load reads: those of a directory with a goal.toml.
LoadedTaskFiles(dsk) == {q \in DOMAIN dsk.tasks : q[1] \in DOMAIN dsk.goals}

LoadFails(dsk) ==
    \/ \E d \in DOMAIN dsk.goals : ~ParsesGoal(dsk.goals[d])
    \/ \E q \in LoadedTaskFiles(dsk) : ~ParsesTask(dsk.tasks[q])

\* Mutant of DatabaseOpen: a file that does not parse is skipped.
DatabaseOpenBestEffort(path, dsk) ==
    IF ~PathExists(path) THEN [ok |-> FALSE, st |-> Closed]
    ELSE LET gd == {d \in DOMAIN dsk.goals : ParsesGoal(dsk.goals[d])}
             tf == {q \in DOMAIN dsk.tasks : q[1] \in gd /\ ParsesTask(dsk.tasks[q])}
         IN [ok |-> TRUE,
             st |-> Load([goals |-> [d \in gd |-> dsk.goals[d]],
                          tasks |-> [q \in tf |-> dsk.tasks[q]]])]

\* open: bail when the path does not exist; load()? drops the Store being
\* filled at the first file that fails to parse.
DatabaseOpen(path, dsk) ==
    IF ~PathExists(path) THEN [ok |-> FALSE, st |-> Closed]
    ELSE IF LoadFails(dsk) THEN [ok |-> FALSE, st |-> Closed]
    ELSE [ok |-> TRUE, st |-> Load(dsk)]

\* A record file cut short after its first key, or holding a state that is
\* no token of the enum.
DamageKinds == {"truncated", "badstate"}

Damaged(f, kind) ==
    IF kind = "truncated" THEN [k \in {"id"} |-> f.id]
    ELSE [k \in DOMAIN f |-> IF k = "state" THEN "bogus" ELSE f[k]]

DamageGoalFile(d, kind) ==
    /\ ops < MaxRaceOps
    /\ d \in DOMAIN disk.goals
    /\ ParsesGoal(disk.goals[d])
    /\ disk' = [disk EXCEPT !.goals[d] = Damaged(@, kind)]
    /\ ops' = ops + 1
    /\ lastOp' = [op |-> "damage", id |-> d, proc |-> 0, unblocked |-> <<>>]
    /\ UNCHANGED <<mem, issued, fs, aw>>

DamageTaskFile(q, kind) ==
    /\ ops < MaxRaceOps
    /\ q \in DOMAIN disk.tasks
    /\ ParsesTask(disk.tasks[q])
    /\ disk' = [disk EXCEPT !.tasks[q] = Damaged(@, kind)]
    /\ ops' = ops + 1
    /\ lastOp' = [op |-> "damage", id |-> q[2], proc |-> 0, unblocked |-> <<>>]
    /\ UNCHANGED <<mem, issued, fs, aw>>

OpenChecked(p, path) ==
    /\ ~mem[p].open
    /\ LET r == DatabaseOpen(path, disk)
       IN /\ mem' = [mem EXCEPT ![p] = r.st]
          /\ lastOp' = IF r.ok THEN lastOp
                       ELSE [op |-> "open_failed", id |-> 0, proc |-> p,
                             unblocked |-> <<>>]
    /\ UNCHANGED <<disk, issued, ops, fs, aw>>

NextOpen ==
    \/ \E path \in OpenPaths : OpenChecked(1, path)
    \/ \E d \in GoalIds, kind \in DamageKinds : DamageGoalFile(d, kind)
    \/ \E q \in GoalIds \X TaskIds, kind \in DamageKinds : DamageTaskFile(q, kind)
    \/ \E id \in TaskIds : StartTask(1, id, TRUE)
    \/ \E id \in TaskIds, min \in MetricInputs : CompleteTask(1, id, min, TRUE)
    \/ \E id \in TaskIds : FailTask(1, id, TRUE)
    \/ \E id \in TaskIds : RetryTask(1, id, TRUE)
    \/ \E id \in TaskIds : CommentTask(1, id, TRUE)

SpecOpen == InitMP /\ [][NextOpen]_vars

\* =================================================================== claims
\* Helpers of the statements below.
TasksOfGoal(st, g) == {i \in DOMAIN st.tasks : st.tasks[i].goal_id = g}

CompletedIn(st, S) == {b \in S : b \in DOMAIN st.tasks /\ st.tasks[b].state = "Completed"}

DiskTask(i) == DeTask(disk.tasks[CHOOSE q \in DOMAIN disk.tasks : q[2] = i])

DiskTaskIds == {q[2] : q \in DOMAIN disk.tasks}

\* C1: starting a Pending task that has a contract twice in a row: the first
\* start succeeds and leaves the task InProgress, the second start fails and
\* leaves the Store and the directory exactly as the first start left them.
C1_StartTwice ==
    \A id \in DOMAIN db.tasks :
        (db.tasks[id].state = "Pending" /\ IsSome(db.tasks[id].contract)) =>
            LET r1 == start(db, disk, id)
                r2 == start(r1.st, r1.dsk, id)
            IN /\ r1.ok
               /\ r1.st.tasks[id].state = "InProgress"
               /\ ~r2.ok
               /\ r2.st = r1.st
               /\ r2.dsk = r1.dsk
               /\ r2.st.tasks[id].state = "InProgress"

\* A started task is in the Store and starting it again is refused.
C1_Witness ==
    \E id \in DOMAIN db.tasks :
        /\ db.tasks[id].state = "InProgress"
        /\ db.tasks[id].metrics.retry_count = 0
        /\ ~start(db, disk, id).ok

\* C2: across two processes a start reports success only when the task is
\* Pending in the directory at that moment, so of two racing starts at most
\* one succeeds and the loser never writes over the winner's record.
C2_OneWinner ==
    [][(lastOp' # lastOp /\ lastOp'.op = "start") =>
            DiskTask(lastOp'.id).state = "Pending"]_vars

\* C3: a task with two blockers is Blocked while exactly one of them is
\* Completed, and the completion of the second one leaves it Pending, the
\* same record whichever blocker was completed first.
C3_BlockerCount ==
    [][\A c \in DOMAIN db'.tasks :
          Cardinality(db'.tasks[c].blocked_by) = 2 =>
              LET bs == db'.tasks[c].blocked_by
              IN /\ Cardinality(CompletedIn(db', bs)) = 1 =>
                        db'.tasks[c].state = "Blocked"
                 /\ (/\ c \in DOMAIN db.tasks
                     /\ Cardinality(CompletedIn(db, bs)) = 1
                     /\ Cardinality(CompletedIn(db', bs)) = 2) =>
                        /\ db'.tasks[c].state = "Pending"
                        /\ db'.tasks[c] = Unblocked(db.tasks[c])]_vars

\* Both blockers are Completed and the task was unblocked.
C3_Witness ==
    \E c \in DOMAIN db.tasks :
        /\ Cardinality(db.tasks[c].blocked_by) = 2
        /\ Cardinality(CompletedIn(db, db.tasks[c].blocked_by)) = 2
        /\ db.tasks[c].state = "Pending"

\* C4: right after a complete-task call of some process has returned, no
\* task of the directory that lists the completed task as a blocker is still
\* Blocked while all of its blockers are Completed in the directory.
C4_FreshResolve ==
    lastOp.op = "complete" =>
        \A c \in DiskTaskIds :
            LET t == DiskTask(c)
            IN (/\ lastOp.id \in t.blocked_by
                /\ \A b \in t.blocked_by :
                      b \in DiskTaskIds /\ DiskTask(b).state = "Completed")
               => t.state # "Blocked"

\* C5: a task that is not Blocked has every blocker Completed.
C5_BlockersCompleted ==
    \A i \in DOMAIN db.tasks :
        db.tasks[i].state # "Blocked" =>
            \A b \in db.tasks[i].blocked_by :
                b \in DOMAIN db.tasks /\ db.tasks[b].state = "Completed"

\* A task with blockers has been unblocked, started and completed.
C5_Witness ==
    \E i \in DOMAIN db.tasks :
        db.tasks[i].blocked_by # {} /\ db.tasks[i].state = "Completed"

\* C6: a successful complete-task leaves the goal of the task Completed with
\* completed_at set if all its tasks are Completed, else Failed if one of
\* them is Failed, else as it was but for a newer updated_at; the goal file
\* holds the same record.
C6_GoalRecomputed ==
    [][\A id \in DOMAIN db.tasks :
          (db.tasks[id].state = "InProgress" /\ db'.tasks[id].state = "Completed") =>
              LET g == db.tasks[id].goal_id
                  before == db.goals[g]
                  after == db'.goals[g]
                  now == TasksOfGoal(db', g)
              IN /\ DeGoal(disk'.goals[g]) = after
                 /\ IF \A i \in now : db'.tasks[i].state = "Completed"
                    THEN after.state = "Completed" /\ IsSome(after.completed_at)
                    ELSE IF \E i \in now : db'.tasks[i].state = "Failed"
                    THEN after.state = "Failed"
                    ELSE /\ after.state = before.state
                         /\ after.updated_at # before.updated_at
                         /\ after = [before EXCEPT !.updated_at = after.updated_at]]_vars

\* A goal that a completion left Failed beside a Completed task, and a goal
\* that a completion merely touched.
C6_Witness ==
    \E g \in DOMAIN db.goals :
        /\ db.goals[g].state = "Failed"
        /\ \E i \in TasksOfGoal(db, g) : db.tasks[i].state = "Completed"

\* C7: whenever the three tasks of a goal are Completed, Failed and Pending,
\* the goal is Failed.
C7_GoalFailed ==
    \A g \in DOMAIN db.goals :
        LET ts == TasksOfGoal(db, g)
        IN (/\ Cardinality(ts) = 3
            /\ \E t1, t2, t3 \in ts :
                  /\ db.tasks[t1].state = "Completed"
                  /\ db.tasks[t2].state = "Failed"
                  /\ db.tasks[t3].state = "Pending")
           => db.goals[g].state = "Failed"

\* C8: completed_at of a goal is set exactly when the goal is Completed.
C8_GoalCompletedAt ==
    \A g \in DOMAIN db.goals :
        IsSome(db.goals[g].completed_at) <=> db.goals[g].state = "Completed"

\* C9: a goal that is Completed or Failed keeps that state.
C9_GoalAbsorbing ==
    [][\A g \in DOMAIN db.goals :
          db.goals[g].state \in {"Completed", "Failed"} =>
              db'.goals[g].state = db.goals[g].state]_vars

\* C10: result and completed_at of a task are set exactly when the task is
\* Completed.
C10_ResultIffCompleted ==
    \A i \in DOMAIN db.tasks :
        /\ IsSome(db.tasks[i].result) <=> db.tasks[i].state = "Completed"
        /\ IsSome(db.tasks[i].completed_at) <=> db.tasks[i].state = "Completed"

\* A Completed task holding its result, beside a task that failed and was
\* retried without ever getting one.
C10_Witness ==
    /\ \E i \in DOMAIN db.tasks :
          db.tasks[i].state = "Completed" /\ IsSome(db.tasks[i].result)
    /\ \E i \in DOMAIN db.tasks :
          db.tasks[i].state = "InProgress" /\ db.tasks[i].metrics.retry_count > 0

\* The Store with the state field of task id holding s, as a loaded record
\* or a value built by hand may.
WithState(st, id, s) == [st EXCEPT !.tasks[id].state = s]

IsPrefix(a, b) == Len(a) <= Len(b) /\ \A i \in 1..Len(a) : a[i] = b[i]

\* C11: a task that create-task adds starts Blocked if and only if its
\* blocked_by list is not empty, and Pending otherwise.
C11_InitialState ==
    [][\A id \in DOMAIN db'.tasks \ DOMAIN db.tasks :
          /\ db'.tasks[id].state = "Blocked" <=> db'.tasks[id].blocked_by # {}
          /\ db'.tasks[id].blocked_by = {} => db'.tasks[id].state = "Pending"
          /\ DiskTask(id)' = db'.tasks[id]]_vars

\* A task created with blockers beside a task created without.
C11_Witness ==
    /\ \E i \in DOMAIN db.tasks :
          /\ db.tasks[i].blocked_by # {}
          /\ db.tasks[i].state = "Blocked"
          /\ db.tasks[i].updated_at = db.tasks[i].created_at
    /\ \E i \in DOMAIN db.tasks :
          /\ db.tasks[i].blocked_by = {}
          /\ db.tasks[i].state = "Pending"
          /\ db.tasks[i].updated_at = db.tasks[i].created_at

\* C12: start on a task without a contract fails and leaves the Store and
\* the directory as they were.
C12_NoContractNoStart ==
    \A id \in DOMAIN db.tasks :
        db.tasks[id].contract = None =>
            LET r == start(db, disk, id)
            IN ~r.ok /\ r.st = db /\ r.dsk = disk

\* A Pending task without blockers that only lacks the contract.
C12_Witness ==
    \E id \in DOMAIN db.tasks :
        /\ db.tasks[id].contract = None
        /\ db.tasks[id].state = "Pending"
        /\ db.tasks[id].blocked_by = {}
        /\ ~start(db, disk, id).ok

\* C13: start on a Blocked task fails and changes nothing, contract or not;
\* a start that succeeds is on a Pending task with a contract all of whose
\* blockers are Completed.
C13_StartGuard ==
    \A id \in DOMAIN db.tasks :
        LET t == db.tasks[id]
            r == start(db, disk, id)
        IN /\ t.state = "Blocked" => (~r.ok /\ r.st = db /\ r.dsk = disk)
           /\ r.ok => /\ t.state = "Pending"
                      /\ IsSome(t.contract)
                      /\ \A b \in t.blocked_by :
                            b \in DOMAIN db.tasks /\ db.tasks[b].state = "Completed"

\* A Blocked task with a contract is refused while an unblocked task with
\* blockers can be started.
C13_Witness ==
    /\ \E id \in DOMAIN db.tasks :
          /\ db.tasks[id].state = "Blocked"
          /\ IsSome(db.tasks[id].contract)
          /\ ~start(db, disk, id).ok
    /\ \E id \in DOMAIN db.tasks :
          db.tasks[id].blocked_by # {} /\ start(db, disk, id).ok

C15_Retry ==
    \A id \in DOMAIN db.tasks : \A s \in TaskStates :
        LET st == WithState(db, id, s)
            t == st.tasks[id]
            r == retry(st, disk, id)
        IN IF s = "Failed"
           THEN /\ r.ok
                /\ r.st.tasks[id] =
                      [t EXCEPT !.state = "InProgress",
                                !.metrics.retry_count = t.metrics.retry_count + 1,
                                !.updated_at = r.st.tasks[id].updated_at]
           ELSE ~r.ok /\ r.st = st /\ r.dsk = disk

\* A task that failed and was retried.
C15_Witness ==
    \E id \in DOMAIN db.tasks :
        db.tasks[id].state = "InProgress" /\ db.tasks[id].metrics.retry_count = 1

\* C16: fail leaves a task Failed exactly when it is InProgress or
\* Verifying; on Pending, Blocked, Completed or Failed it is rejected and
\* changes nothing.
C16_Fail ==
    \A id \in DOMAIN db.tasks : \A s \in TaskStates :
        LET st == WithState(db, id, s)
            r == fail(st, disk, id)
        IN IF s \in {"InProgress", "Verifying"}
           THEN r.ok /\ r.st.tasks[id].state = "Failed"
           ELSE ~r.ok /\ r.st = st /\ r.dsk = disk

\* A task was failed, and failing it again is rejected.
C16_Witness ==
    \E id \in DOMAIN db.tasks :
        db.tasks[id].state = "Failed" /\ ~fail(db, disk, id).ok

\* C17: a transition primitive whose expected state does not match the
\* state of the task reports failure and returns the task as it was.
C17_NoMutationOnMismatch ==
    \A id \in DOMAIN db.tasks : \A s \in TaskStates :
        LET t == [db.tasks[id] EXCEPT !.state = s]
            o == [summary |-> "done", artifacts |-> <<>>]
            m == [tokens |-> 100, elapsed_ms |-> 500, retry_count |-> 0]
        IN /\ \A from \in TaskStates \ {s} : \A to \in {"InProgress", "Pending", s} :
                 Transition(t, from, to) = [ok |-> FALSE, task |-> t]
           /\ \A from \in {{"InProgress", "Verifying"} \ {s}, TaskStates \ {s}, {}} :
                 TransitionFromAny(t, from, "Failed") = [ok |-> FALSE, task |-> t]
           /\ s # "InProgress" => TaskComplete(t, o, m) = [ok |-> FALSE, task |-> t]
           /\ s # "Failed" => TaskRetry(t) = [ok |-> FALSE, task |-> t]

\* A Completed task with a result and metrics, on which every primitive is
\* refused.
C17_Witness ==
    \E id \in DOMAIN db.tasks :
        /\ db.tasks[id].state = "Completed"
        /\ db.tasks[id].metrics.tokens = 100
        /\ ~TaskRetry(db.tasks[id]).ok
        /\ ~Transition(db.tasks[id], "Pending", "InProgress").ok

\* A comment on task id, whatever state s its record holds, is accepted,
\* keeps s and goes after the comments already there.
CommentAppends ==
    \A id \in DOMAIN db.tasks : \A s \in TaskStates :
        LET st == WithState(db, id, s)
            r == comment(st, disk, id, issued + 1, "note")
            new == r.st.tasks[id]
        IN /\ r.ok
           /\ new.state = s
           /\ Len(new.comments) = Len(db.tasks[id].comments) + 1
           /\ IsPrefix(db.tasks[id].comments, new.comments)
           /\ new.comments[Len(new.comments)].id = issued + 1
           /\ DeTask(r.dsk.tasks[TaskFilePath(new)]) = new

\* The comments of every task after a step extend those before it.
CommentsGrow ==
    \A id \in DOMAIN db.tasks :
        /\ id \in DOMAIN db'.tasks
        /\ IsPrefix(db.tasks[id].comments, db'.tasks[id].comments)

PathContent == ReadPath(fs, EntityPath)

\* The entity file is absent or holds one whole buffer.
WholeOrAbsent == PathContent = None \/ Unwrap(PathContent) \in Buffers

\* Only the rename of a writer whose buffer is written out and synced gives
\* the entity file another content, and that content is the buffer.
OnlyRenameChanges ==
    PathContent' # PathContent =>
        /\ aw[1].pc = "rename"
        /\ aw[1].off = Len(aw[1].content)
        /\ fs.inodes[aw[1].fd].data = aw[1].content
        /\ fs.inodes[aw[1].fd].synced
        /\ PathContent' = Some(aw[1].content)

\* C19: with one writer that may die after any step of atomic_write, a
\* reader of the path always gets the whole prior or the whole new content,
\* and the content changes only at the rename, after the write and the sync.
C19_AtomicWrite == []WholeOrAbsent /\ [][OnlyRenameChanges]_vars

\* The writer died with half of its buffer in the temporary file and the
\* entity file still holds the other buffer.
C19_Witness ==
    /\ aw[1].res = "crashed"
    /\ TempPath(EntityPath) \in DOMAIN fs.dir
    /\ Len(fs.inodes[fs.dir[TempPath(EntityPath)]].data) = 1
    /\ IsSome(PathContent)
    /\ PathContent # Some(aw[1].content)

\* C20: two processes, neither of which dies, run atomic_write on the same
\* path with different buffers: a reader of the path always gets one whole
\* buffer (the prior one or one of the two), whatever the interleaving.
C20_WholeBuffer ==
    (/\ \A p \in Procs : aw[p].runs = 1 /\ aw[p].res # "crashed"
     /\ aw[1].content # aw[2].content)
    => \/ PathContent = None
       \/ \E b \in Buffers : PathContent = Some(b)

\* C21: a call of atomic_write in which a step fails with an I/O error
\* returns the error, and no step of a call that does not end in success
\* changes what a reader of the target path gets, so the content is what
\* it was before the call.
C21_ErrorKeepsTarget ==
    [][/\ (aw[1].pc # "idle" /\ aw'[1].res # "ok") => PathContent' = PathContent
       /\ (aw[1].pc = "idle") => PathContent' = PathContent
       /\ (aw'[1].res = "err") => aw'[1].pc = "idle" /\ aw'[1].fd = 0]_vars

\* A write failed half way: the temporary file holds a part of the buffer
\* and the target still holds the other buffer.
C21_Witness ==
    /\ aw[1].res = "err"
    /\ TempPath(EntityPath) \in DOMAIN fs.dir
    /\ Len(fs.inodes[fs.dir[TempPath(EntityPath)]].data) = 1
    /\ IsSome(PathContent)
    /\ PathContent # Some(aw[1].content)

\* The task files other than that of task id, and the goal files, that a
\* step changed.
SiblingsWritten(id) ==
    {q \in DOMAIN disk.tasks : q[2] # id /\ disk'.tasks[q] # disk.tasks[q]}

GoalsWritten == {g \in DOMAIN disk.goals : disk'.goals[g] # disk.goals[g]}

\* C22: of the writes of one complete call, whether it returns or the
\* process dies on the way, the task comes first, the unblocked siblings
\* follow one by one in list order and the goal comes last: whatever part
\* reached the directory, the task is Completed there, a written sibling is
\* a Pending task that waited for it with every sibling before it in the
\* list written too, the goal is written only together with all of them,
\* and no file is lost.
C22_WriteOrder ==
    [][(lastOp' # lastOp /\ lastOp'.op \in {"complete", "crash"}) =>
          LET id == lastOp'.id
              st == mem[lastOp'.proc]
              full == {complete(st, disk, id, "done", None, min[1], min[2]) :
                          min \in MetricInputs}
          IN /\ DOMAIN disk'.tasks = DOMAIN disk.tasks
             /\ DOMAIN disk'.goals = DOMAIN disk.goals
             /\ DeTask(disk'.tasks[TaskFilePath(st.tasks[id])]).state = "Completed"
             /\ \A q \in SiblingsWritten(id) :
                   /\ DeTask(disk'.tasks[q]) = Unblocked(st.tasks[q[2]])
                   /\ id \in st.tasks[q[2]].blocked_by
                   /\ \E r \in full :
                         \E j \in DOMAIN Unwrap(r.out).unblocked_task_ids :
                            /\ Unwrap(r.out).unblocked_task_ids[j] = q[2]
                            /\ \A i \in 1..j :
                                  \E q2 \in SiblingsWritten(id) :
                                     q2[2] = Unwrap(r.out).unblocked_task_ids[i]
             /\ GoalsWritten # {} =>
                   /\ lastOp'.op = "complete"
                   /\ \E r \in full : disk' = r.dsk]_vars

\* The process died after the task was written: the task is Completed in
\* the directory, the sibling that waited for it alone is still Blocked.
C22_Witness ==
    /\ lastOp.op = "crash"
    /\ DiskTask(lastOp.id).state = "Completed"
    /\ \E c \in DiskTaskIds :
          /\ DiskTask(c).state = "Blocked"
          /\ DiskTask(c).blocked_by = {lastOp.id}

\* An id no goal, and an id no task, ever carries.
UnknownGoal == MaxGoals + 1

UnknownTask == MaxTasks + 1

\* C23: after every operation of the process, a Store opened on the
\* directory holds goal and task maps equal to those of the process, record
\* by record and field by field.
C23_ReopenEqual ==
    LET re == Load(disk)
    IN /\ DOMAIN re.goals = DOMAIN db.goals
       /\ DOMAIN re.tasks = DOMAIN db.tasks
       /\ \A g \in DOMAIN db.goals : re.goals[g] = db.goals[g]
       /\ \A t \in DOMAIN db.tasks : re.tasks[t] = db.tasks[t]

\* The directory holds a Completed goal, a retried and Completed task with
\* its result, a task with blockers and a task with a comment.
C23_Witness ==
    /\ \E g \in DOMAIN db.goals : db.goals[g].state = "Completed"
    /\ \E t \in DOMAIN db.tasks :
          db.tasks[t].state = "Completed" /\ db.tasks[t].metrics.retry_count = 1
    /\ \E t \in DOMAIN db.tasks : db.tasks[t].blocked_by # {}
    /\ \E t \in DOMAIN db.tasks : db.tasks[t].comments # <<>>

\* C24: create_goal with the id of a goal of the Store and create_task with
\* the id of a task of the Store, under any goal, fail and leave the Store
\* and the directory as they were.
C24_DuplicateRefused ==
    /\ \A g \in DOMAIN db.goals :
          LET r == DbCreateGoal(db, disk, NewGoal(g, Now(disk)))
          IN ~r.ok /\ r.st = db /\ r.dsk = disk
    /\ \A t \in DOMAIN db.tasks : \A g \in GoalIds \cup {UnknownGoal} :
          LET r == DbCreateTask(db, disk, NewTask(t, g, None, {}, Now(disk)))
          IN ~r.ok /\ r.st = db /\ r.dsk = disk

\* Two goals, and a task that is no longer as it was created.
C24_Witness ==
    /\ Cardinality(DOMAIN db.goals) = 2
    /\ \E t \in DOMAIN db.tasks :
          /\ db.tasks[t].state = "Completed"
          /\ ~DbCreateTask(db, disk, NewTask(t, 2, None, {}, Now(disk))).ok

\* C25: create-task with an unknown goal, or with a blocked_by id that is
\* not a task of that goal (a task of another goal included), fails and
\* leaves the Store and the directory as they were.
C25_CreateValidated ==
    \A g \in GoalIds \cup {UnknownGoal} :
        \A bb \in BlockedByInputs \cup {Some({UnknownTask})} :
            LET r == create(db, disk, UnknownTask, g, WithContract, bb)
                bad == \/ g \notin DOMAIN db.goals
                       \/ /\ bb # None
                          /\ \E b \in Unwrap(bb) :
                                b \notin DOMAIN db.tasks \/ db.tasks[b].goal_id # g
            IN bad => (~r.ok /\ r.st = db /\ r.dsk = disk)

\* A task of one goal exists, and naming it as a blocker under the other
\* goal is refused.
C25_Witness ==
    \E t \in DOMAIN db.tasks : \E g \in DOMAIN db.goals :
        /\ db.tasks[t].goal_id # g
        /\ ~create(db, disk, UnknownTask, g, WithContract, Some({t})).ok

\* A goal is Pending exactly while it has no task.
PendingIffNoTask ==
    \A g \in DOMAIN db.goals :
        db.goals[g].state = "Pending" <=> TasksOfGoal(db, g) = {}

\* A new goal is Pending; a step that adds a task to a goal makes a Pending
\* goal InProgress and keeps any other state.
CreateMovesPendingOnly ==
    \A g \in DOMAIN db'.goals :
        IF g \notin DOMAIN db.goals THEN db'.goals[g].state = "Pending"
        ELSE TasksOfGoal(db', g) # TasksOfGoal(db, g) =>
                db'.goals[g].state =
                    IF db.goals[g].state = "Pending" THEN "InProgress"
                    ELSE db.goals[g].state

\* C26: a goal is Pending from its creation until the first task is created
\* under it, the first create-task makes it InProgress, and create-task
\* never changes the state of a goal that is not Pending.
C26_GoalStarts == []PendingIffNoTask /\ [][CreateMovesPendingOnly]_vars

\* A goal is Completed and has a task that has not started: a goal becomes
\* Completed only when all its tasks are, so the task was created afterwards.
C26_Witness ==
    \E g \in DOMAIN db.goals :
        /\ db.goals[g].state = "Completed"
        /\ \E t \in TasksOfGoal(db, g) :
              db.tasks[t].state \in {"Pending", "Blocked"}

\* C27: ready(goal) returns, once each, exactly the tasks of the goal that
\* are Pending and have a contract, and these are exactly the tasks of the
\* goal on which start succeeds.
C27_Ready ==
    \A g \in DOMAIN db.goals :
        LET r == ready(db, g)
            got == {r.out[i].id : i \in DOMAIN r.out}
        IN /\ r.ok
           /\ Len(r.out) = Cardinality(got)
           /\ \A i \in DOMAIN r.out : r.out[i] = db.tasks[r.out[i].id]
           /\ got = {t \in TasksOfGoal(db, g) :
                        db.tasks[t].state = "Pending" /\ IsSome(db.tasks[t].contract)}
           /\ got = {t \in TasksOfGoal(db, g) : start(db, disk, t).ok}

\* ready returns a task and leaves out a Pending task without a contract and
\* a Blocked one of the same goal.
C27_Witness ==
    \E g \in DOMAIN db.goals :
        /\ Len(ready(db, g).out) = 1
        /\ \E t \in TasksOfGoal(db, g) :
              db.tasks[t].state = "Pending" /\ db.tasks[t].contract = None
        /\ \E t \in TasksOfGoal(db, g) : db.tasks[t].state = "Blocked"

\* C28: list_goals gives every goal once, newest first; list_tasks(g) gives
\* once each exactly the tasks whose goal_id is g, oldest first, and the
\* empty list for an unknown goal.
C28_Lists ==
    /\ LET gl == ListGoals(db)
       IN /\ Len(gl) = Cardinality(DOMAIN db.goals)
          /\ {gl[i] : i \in DOMAIN gl} = {db.goals[g] : g \in DOMAIN db.goals}
          /\ \A i, j \in DOMAIN gl : i < j => gl[i].created_at >= gl[j].created_at
    /\ \A g \in GoalIds \cup {UnknownGoal} :
          LET tl == ListTasks(db, g)
          IN /\ Len(tl) = Cardinality(TasksOfGoal(db, g))
             /\ {tl[i] : i \in DOMAIN tl} = {db.tasks[t] : t \in TasksOfGoal(db, g)}
             /\ \A i, j \in DOMAIN tl : i < j => tl[i].created_at <= tl[j].created_at
             /\ g \notin DOMAIN db.goals => tl = <<>>

\* Two goals, the older one with two tasks and the newer one with one task
\* created in between.
C28_Witness ==
    /\ Cardinality(DOMAIN db.goals) = 2
    /\ Cardinality(TasksOfGoal(db, 1)) = 2
    /\ Cardinality(TasksOfGoal(db, 2)) = 1
    /\ \E t \in TasksOfGoal(db, 2) : \E a, b \in TasksOfGoal(db, 1) :
          /\ db.tasks[a].created_at < db.tasks[t].created_at
          /\ db.tasks[t].created_at < db.tasks[b].created_at

\* The sum of f over the tasks S, taken one task at a time.
RECURSIVE TokensOf(_)
TokensOf(S) ==
    IF S = {} THEN 0
    ELSE LET t == CHOOSE x \in S : TRUE
         IN db.tasks[t].metrics.tokens + TokensOf(S \ {t})

RECURSIVE ElapsedOf(_)
ElapsedOf(S) ==
    IF S = {} THEN 0
    ELSE LET t == CHOOSE x \in S : TRUE
         IN db.tasks[t].metrics.elapsed_ms + ElapsedOf(S \ {t})

\* C29: compute_goal_metrics(g) holds the sums of tokens and elapsed_ms and
\* the numbers of all, of Completed and of Failed tasks of g; for an
\* unknown goal every field is zero.
C29_Metrics ==
    /\ \A g \in GoalIds \cup {UnknownGoal} :
          LET m == ComputeGoalMetrics(db, g)
              ts == TasksOfGoal(db, g)
          IN /\ m.total_tokens = TokensOf(ts)
             /\ m.elapsed_ms = ElapsedOf(ts)
             /\ m.task_count = Cardinality(ts)
             /\ m.tasks_completed =
                   Cardinality({t \in ts : db.tasks[t].state = "Completed"})
             /\ m.tasks_failed =
                   Cardinality({t \in ts : db.tasks[t].state = "Failed"})
    /\ ComputeGoalMetrics(db, UnknownGoal) =
          [total_tokens |-> 0, prompt_tokens |-> 0, completion_tokens |-> 0,
           elapsed_ms |-> 0, task_count |-> 0, tasks_completed |-> 0,
           tasks_failed |-> 0]

\* A goal with a Completed task that reported metrics, a Failed task and a
\* Pending task.
C29_Witness ==
    /\ ComputeGoalMetrics(db, 1).total_tokens = 100
    /\ ComputeGoalMetrics(db, 1).elapsed_ms = 500
    /\ ComputeGoalMetrics(db, 1).task_count = 3
    /\ ComputeGoalMetrics(db, 1).tasks_completed = 1
    /\ ComputeGoalMetrics(db, 1).tasks_failed = 1

\* No path gives a Store unless it exists and every file load reads parses,
\* and a Store that is given holds the record of every such file.
OpenAllOrNothing ==
    \A path \in OpenPaths :
        LET r == DatabaseOpen(path, disk)
        IN /\ (~PathExists(path) \/ LoadFails(disk)) => (~r.ok /\ r.st = Closed)
           /\ r.ok =>
                 /\ r.st.open
                 /\ \A d \in DOMAIN disk.goals :
                       /\ DeGoal(disk.goals[d]).id \in DOMAIN r.st.goals
                       /\ r.st.goals[DeGoal(disk.goals[d]).id] = DeGoal(disk.goals[d])
                 /\ \A q \in LoadedTaskFiles(disk) :
                       /\ DeTask(disk.tasks[q]).id \in DOMAIN r.st.tasks
                       /\ r.st.tasks[DeTask(disk.tasks[q]).id] = DeTask(disk.tasks[q])

\* A process gets a Store only from a directory whose files all parse.
OpensOnlyWhole ==
    \A p \in Procs :
        (~mem[p].open /\ mem'[p].open) => ~LoadFails(disk)

\* C30: open fails and gives no Store when the directory does not exist or
\* a goal or task record file that load reads fails to parse; a Store it
\* gives holds every record, never only those that parsed.
C30_OpenAllOrNothing == []OpenAllOrNothing /\ [][OpensOnlyWhole]_vars

\* open has just failed on a directory where one task file is damaged while
\* the goal file and another task file parse.
C30_Witness ==
    /\ lastOp.op = "open_failed"
    /\ \A p \in Procs : ~mem[p].open
    /\ \E d \in DOMAIN disk.goals : ParsesGoal(disk.goals[d])
    /\ \E q \in LoadedTaskFiles(disk) : ~ParsesTask(disk.tasks[q])
    /\ \E q \in LoadedTaskFiles(disk) : ParsesTask(disk.tasks[q])
    /\ DatabaseOpenBestEffort(RootDir, disk).st.tasks # EmptyMap

\* The tasks in progress, on which complete can act.
InProgressTasks == {a \in DOMAIN db.tasks : db.tasks[a].state = "InProgress"}

CompleteOf(a) == complete(db, disk, a, "done", None, None, None)

\* The unblocked task ids of the CompleteResult.
UnblockedOf(a) == Unwrap(CompleteOf(a).out).unblocked_task_ids

\* C31: one complete-task call unblocks only tasks that list the completed
\* task in blocked_by: a task Blocked only through other tasks stays Blocked
\* and unchanged in that call, also when one of its blockers was unblocked
\* by it.
C31_OneHop ==
    \A a \in InProgressTasks :
        LET r == CompleteOf(a)
        IN /\ r.ok
           /\ \A i \in DOMAIN UnblockedOf(a) : a \in db.tasks[UnblockedOf(a)[i]].blocked_by
           /\ \A c \in DOMAIN db.tasks :
                 (db.tasks[c].state = "Blocked" /\ a \notin db.tasks[c].blocked_by) =>
                     r.st.tasks[c] = db.tasks[c]

\* B is blocked by A and C by B; completing A gives B and leaves C Blocked.
C31_Witness ==
    \E a \in InProgressTasks : \E b, c \in DOMAIN db.tasks :
        /\ db.tasks[b].blocked_by = {a}
        /\ db.tasks[c].blocked_by = {b}
        /\ UnblockedOf(a) = <<b>>
        /\ CompleteOf(a).st.tasks[b].state = "Pending"
        /\ CompleteOf(a).st.tasks[c].state = "Blocked"

\* Every goal and task stays, in the Store and in the directory, and a task
\* keeps its id, goal_id, blocked_by and created_at.
IdentityKept ==
    /\ DOMAIN db.goals \subseteq DOMAIN db'.goals
    /\ DOMAIN db.tasks \subseteq DOMAIN db'.tasks
    /\ DOMAIN disk.goals \subseteq DOMAIN disk'.goals
    /\ DOMAIN disk.tasks \subseteq DOMAIN disk'.tasks
    /\ \A t \in DOMAIN db.tasks :
          /\ db'.tasks[t].id = db.tasks[t].id
          /\ db'.tasks[t].goal_id = db.tasks[t].goal_id
          /\ db'.tasks[t].blocked_by = db.tasks[t].blocked_by
          /\ db'.tasks[t].created_at = db.tasks[t].created_at

\* C32: no operation changes the id, goal_id, blocked_by or created_at of a
\* task or removes a goal or a task.
C32_IdentityKept == [][IdentityKept]_vars

\* A task with a blocker was unblocked, started, failed, retried, completed
\* and commented on, and still names its blocker.
C32_Witness ==
    \E t \in DOMAIN db.tasks :
        /\ db.tasks[t].blocked_by # {}
        /\ db.tasks[t].state = "Completed"
        /\ db.tasks[t].metrics.retry_count = 1
        /\ db.tasks[t].comments # <<>>

\* C33: the ids complete-task returns are, once each, exactly the tasks
\* that the call moved from Blocked to Pending, and each of them lists the
\* completed task in blocked_by.
C33_UnblockedExact ==
    \A a \in InProgressTasks :
        LET r == CompleteOf(a)
            listed == {UnblockedOf(a)[i] : i \in DOMAIN UnblockedOf(a)}
        IN /\ Len(UnblockedOf(a)) = Cardinality(listed)
           /\ listed = {t \in DOMAIN db.tasks :
                           /\ db.tasks[t].state = "Blocked"
                           /\ r.st.tasks[t].state = "Pending"}
           /\ \A t \in listed : a \in db.tasks[t].blocked_by
           /\ \A t \in DOMAIN db.tasks :
                 (t # a /\ t \notin listed) => r.st.tasks[t].state = db.tasks[t].state

\* One call unblocks two tasks, both blocked by the completed task alone.
C33_Witness ==
    \E a \in InProgressTasks :
        /\ Len(UnblockedOf(a)) = 2
        /\ \A t \in DOMAIN db.tasks : t # a => db.tasks[t].blocked_by = {a}

\* A task that leaves Blocked becomes Pending, in a step that completes one
\* of its blockers.
BlockedLeftByResolver ==
    \A t \in DOMAIN db.tasks :
        (db.tasks[t].state = "Blocked" /\ db'.tasks[t].state # "Blocked") =>
            /\ db'.tasks[t].state = "Pending"
            /\ \E b \in db.tasks[t].blocked_by :
                  /\ db.tasks[b].state = "InProgress"
                  /\ db'.tasks[b].state = "Completed"

\* start, fail, retry and comment on a Blocked task, and any create-task,
\* leave every Blocked task Blocked.
CallerKeepsBlocked ==
    \A t \in DOMAIN db.tasks :
        db.tasks[t].state = "Blocked" =>
            /\ ~start(db, disk, t).ok
            /\ ~fail(db, disk, t).ok
            /\ ~retry(db, disk, t).ok
            /\ comment(db, disk, t, 1, "note").st.tasks[t].state = "Blocked"
            /\ \A g \in GoalIds, bb \in {None, Some({t})} :
                  create(db, disk, UnknownTask, g, WithContract, bb).st.tasks[t].state
                      = "Blocked"

\* C34: a task leaves Blocked only inside a complete-task call on one of its
\* blockers, and only to Pending; start, fail, retry, comment and
\* create-task never change the state of a Blocked task.
C34_BlockedOnlyResolved == []CallerKeepsBlocked /\ [][BlockedLeftByResolver]_vars

\* A task created Blocked with a contract has been unblocked and started,
\* while another one is still Blocked and start on it is refused.
C34_Witness ==
    /\ \E t \in DOMAIN db.tasks :
          db.tasks[t].blocked_by # {} /\ db.tasks[t].state = "InProgress"
    /\ \E t \in DOMAIN db.tasks :
          /\ db.tasks[t].state = "Blocked"
          /\ IsSome(db.tasks[t].contract)
          /\ ~start(db, disk, t).ok

TaskEdges ==
    {<<"Blocked", "Pending">>, <<"Pending", "InProgress">>,
     <<"InProgress", "Completed">>, <<"InProgress", "Failed">>,
     <<"Verifying", "Failed">>, <<"Failed", "InProgress">>}

OnlyTaskEdges ==
    \A t \in DOMAIN db.tasks :
        db'.tasks[t].state # db.tasks[t].state =>
            <<db.tasks[t].state, db'.tasks[t].state>> \in TaskEdges

NeverVerifying ==
    \A t \in DOMAIN db.tasks : db.tasks[t].state # "Verifying"

\* C35: every change of a task's state is one of the edges
\* Blocked->Pending, Pending->InProgress, InProgress->Completed,
\* InProgress->Failed, Verifying->Failed, Failed->InProgress; Completed is
\* never left and Verifying never reached.
C35_TaskEdges == []NeverVerifying /\ [][OnlyTaskEdges]_vars

\* A task went Blocked, Pending, InProgress, Failed, InProgress, Completed.
C35_Witness ==
    \E t \in DOMAIN db.tasks :
        /\ db.tasks[t].blocked_by # {}
        /\ db.tasks[t].metrics.retry_count = 1
        /\ db.tasks[t].state = "Completed"
        /\ db.tasks[t].comments = <<>>

\* C36: after every operation of the process, no task is Blocked while
\* every id of its blocked_by names a Completed task, a task created with
\* blockers that were already Completed included.
C36_NoStaleBlocked ==
    \A t \in DOMAIN db.tasks :
        db.tasks[t].state = "Blocked" =>
            \E b \in db.tasks[t].blocked_by :
                b \notin DOMAIN db.tasks \/ db.tasks[b].state # "Completed"

\* C37: a Completed goal has at least one task and all its tasks are
\* Completed, also after create-task on a goal that is already Completed.
C37_CompletedGoalAllDone ==
    \A g \in DOMAIN db.goals :
        db.goals[g].state = "Completed" =>
            /\ TasksOfGoal(db, g) # {}
            /\ \A t \in TasksOfGoal(db, g) : db.tasks[t].state = "Completed"

\* The tasks that block t directly or through at most n other tasks.
RECURSIVE BlockersWithin(_, _)
BlockersWithin(t, n) ==
    IF n = 0 \/ t \notin DOMAIN db.tasks THEN {}
    ELSE db.tasks[t].blocked_by
         \cup UNION {BlockersWithin(b, n - 1) : b \in db.tasks[t].blocked_by}

\* C38: every blocked_by id names an existing task of the same goal that
\* was created earlier, and no task blocks itself, directly or through
\* other tasks.
C38_Acyclic ==
    \A t \in DOMAIN db.tasks :
        /\ \A b \in db.tasks[t].blocked_by :
              /\ b \in DOMAIN db.tasks
              /\ db.tasks[b].goal_id = db.tasks[t].goal_id
              /\ db.tasks[b].created_at < db.tasks[t].created_at
        /\ t \notin BlockersWithin(t, MaxTasks + 1)

\* A chain of three tasks, and a create-task that names the id the new task
\* would get is refused.
C38_Witness ==
    /\ \E a, b, c \in DOMAIN db.tasks :
          /\ db.tasks[b].blocked_by = {a}
          /\ db.tasks[c].blocked_by = {b}
          /\ a \in BlockersWithin(c, 2)
    /\ ~create(db, disk, UnknownTask, 1, WithContract, Some({UnknownTask})).ok

\* A task file that holds a Completed record keeps holding one, and the
\* comments of a task file are only appended to.
DiskTaskKept ==
    \A q \in DOMAIN disk.tasks :
        /\ q \in DOMAIN disk'.tasks
        /\ DeTask(disk.tasks[q]).state = "Completed" =>
              /\ DeTask(disk'.tasks[q]).state = "Completed"
              /\ DeTask(disk'.tasks[q]).result = DeTask(disk.tasks[q]).result
        /\ IsPrefix(DeTask(disk.tasks[q]).comments, DeTask(disk'.tasks[q]).comments)

\* C39: with two processes on separately opened Stores, a task record that
\* is Completed on disk is never replaced by a record in another state and
\* a comment on disk is never lost, whatever the other process writes from
\* its older snapshot.
C39_DiskNeverRegresses == [][DiskTaskKept]_vars

\* Every task of goal g is Completed and so is the goal.
GoalDone(g) ==
    /\ \A t \in TasksOfGoal(db, g) : db.tasks[t].state = "Completed"
    /\ db.goals[g].state = "Completed"

\* C40 as stated: for a goal whose tasks all have a contract and were
\* created before any start, a caller that keeps starting Pending tasks and
\* completing InProgress tasks eventually has every task Completed, none
\* Blocked, and the goal Completed.
C40_AllDoneEventually ==
    <>[](\A g \in DOMAIN db.goals : GoalDone(g))

\* C40, amended: the same for a goal that has at least one task; a goal
\* without tasks stays Pending.
C40_AllDoneIfAnyTask ==
    <>[](\A g \in DOMAIN db.goals :
            IF TasksOfGoal(db, g) = {} THEN db.goals[g].state = "Pending"
            ELSE GoalDone(g))

\* A chain of three tasks has been completed one after the other and the
\* goal is Completed.
C40_Witness ==
    /\ \E a, b, c \in DOMAIN db.tasks :
          db.tasks[b].blocked_by = {a} /\ db.tasks[c].blocked_by = {b}
    /\ GoalDone(1)

====
